---- MODULE Spec2Model ----
(***************************************************************************)
(* Model of the PortoDB hash / dedupe core of backup_capcut.py:            *)
(* create_run_directory, the adb pull into <run_dir>/portodb,              *)
(* write_sha256_file, load_portodb_log, save_portodb_log, the              *)
(* classification loop of process_portodb_hashes_and_dedupe,               *)
(* generate_portodb_delete_script and the script it generates.             *)
(***************************************************************************)
EXTENDS Integers, Sequences, FiniteSets, TLC

\* ------------------------------------------------------------ bounds
\* Minutes of the wall clock after minute 0; a run directory is named by the
\* minute (strftime("%H%M")), so the run directories are 0..MaxClock.
MaxClock == 1
\* Invocations of the hash/dedupe step (through main or directly).
MaxRuns == 2
\* Whitespace characters typed before or after the confirmation text.
MaxPad == 1

\* ------------------------------------------------------------ domains
\* Relative paths under portodb_root, in ascending (sort_keys) order.
SortedPaths == <<"a.db", "b.db">>
RelPaths == {SortedPaths[i] : i \in 1..Len(SortedPaths)}
\* The manifest's reserved file name inside portodb_root.
ShaName == "SHA256.txt"
\* Content fingerprints (hexdigest values); None is Python's None / no file.
Shas == {"h1", "h2"}
None == "None"
Dirs == 0..MaxClock
Procs == {"r1", "r2"}
Serial == {"r1"}

\* A dict[str, str] over RelPaths: None marks an absent key.
Maps == [RelPaths -> Shas \cup {None}]
EmptyMap == [r \in RelPaths |-> None]

\* A file holding JSON or manifest text: entries written so far, and whether
\* the writer wrote it to the end (a JSON text that is not whole does not parse).
AbsentFile == [kind |-> "absent", entries |-> <<>>, whole |-> FALSE]

VARIABLES
    clock,      \* datetime.now(), in minutes
    listOrder,  \* the order in which the file system enumerates file names
    files,      \* files[d][r]: content fingerprint of <d>/portodb/<r>, or None
    shaFile,    \* shaFile[d]: <d>/portodb/SHA256.txt
    logFile,    \* <backup_root>/portodb_sha_log.json
    tmpFile,    \* <backup_root>/portodb_sha_log.json.tmp
    planFile,   \* planFile[m]: delete_unchanged_portodb_<m>.py in the cwd
    run,        \* run[p]: locals of one invocation of main / the dedupe step
    nRuns,      \* invocations started so far
    locked,     \* absolute paths whose os.remove fails
    exec,       \* the execution of a generated delete script
    observed    \* history: observed[r] is the fingerprint r had in the manifest
                \* of the most recent completed run whose manifest listed r

vars == <<clock, listOrder, files, shaFile, logFile, tmpFile, planFile, run,
          nRuns, locked, exec, observed>>

\* ------------------------------------------------------------ helpers
Range(s) == {s[i] : i \in 1..Len(s)}

Perms(S) == {s \in [1..Cardinality(S) -> S] : \A i, j \in 1..Cardinality(S) : s[i] = s[j] => i = j}

\* os.path.join(portodb_root, rel_path): portodb_root is <backup_root>/<d>/portodb
AbsPath(d, rel) == <<d, rel>>

\* s with x put in after its first k elements.
InsertAt(s, k, x) == SubSeq(s, 1, k) \o <<x>> \o SubSeq(s, k + 1, Len(s))

\* os.walk(portodb_root): the copied files present, in the file system's order.
Copied(d) == SelectSeq(listOrder, LAMBDA n : files[d][n] # None)

\* The listings os.walk may give: SHA256.txt, when there, at any place.
Listings(d) ==
    IF shaFile[d].kind = "absent" THEN {Copied(d)}
    ELSE {InsertAt(Copied(d), k, ShaName) : k \in 0..Len(Copied(d))}

\* ------------------------------------------------------------ ledger (de)serialisation
Max(S) == CHOOSE x \in S : \A y \in S : y <= x

\* json.dump(data, f, indent=2, sort_keys=True): one "key": "value" entry per
\* key of the dict, keys ascending.
DumpEntries(data) ==
    SelectSeq([i \in 1..Len(SortedPaths) |-> <<SortedPaths[i], data[SortedPaths[i]]>>],
              LAMBDA e : e[2] # None)

\* The dict json.load builds from the entries of a JSON object (a repeated key
\* keeps its last value).
FromEntries(es) ==
    [r \in RelPaths |->
        LET at == {i \in 1..Len(es) : es[i][1] = r}
        IN  IF at = {} THEN None ELSE es[Max(at)][2]]

\* A load that trusts whatever entries the file holds.
LoadUnchecked(f) == FromEntries(f.entries)

\* load_portodb_log: {} when the file is absent, when json.load raises (the
\* text is not whole), and when the JSON value is not a dict.
load_portodb_log(f) ==
    IF f.kind = "absent" THEN EmptyMap
    ELSE IF ~f.whole THEN EmptyMap
    ELSE IF f.kind = "dict" THEN FromEntries(f.entries)
    ELSE EmptyMap

\* ------------------------------------------------------------ classification
\* One iteration that treats any path with a prior entry as unchanged.
ClassifyAnyPrior(st, root, rel, sha) ==
    LET prev_sha == st.old_log[rel]
    IN  [old_log   |-> st.old_log,
         new_log   |-> [st.new_log EXCEPT ![rel] = sha],
         unchanged |-> IF prev_sha # None
                       THEN Append(st.unchanged, AbsPath(root, rel))
                       ELSE st.unchanged]

\* One iteration that keeps the fingerprint a path already has in the log.
ClassifyKeepFirst(st, root, rel, sha) ==
    LET prev_sha == st.old_log[rel]
    IN  [old_log   |-> st.old_log,
         new_log   |-> IF prev_sha # None THEN st.new_log
                       ELSE [st.new_log EXCEPT ![rel] = sha],
         unchanged |-> IF prev_sha # None /\ prev_sha = sha
                       THEN Append(st.unchanged, AbsPath(root, rel))
                       ELSE st.unchanged]

\* One iteration of "for rel_path, sha in current_map.items()".
ClassifyOne(st, root, rel, sha) ==
    LET prev_sha == st.old_log[rel]
    IN  [old_log   |-> st.old_log,
         new_log   |-> [st.new_log EXCEPT ![rel] = sha],
         unchanged |-> IF prev_sha # None /\ prev_sha = sha
                       THEN Append(st.unchanged, AbsPath(root, rel))
                       ELSE st.unchanged]

RECURSIVE ClassifyLoop(_, _, _, _)
ClassifyLoop(keys, current_map, root, st) ==
    IF keys = <<>> THEN st
    ELSE ClassifyLoop(Tail(keys), current_map, root,
                      ClassifyOne(st, root, Head(keys), current_map[Head(keys)]))

\* new_log = {} : nothing carried forward.
NewLogEmpty(old_log) == EmptyMap

\* new_log = dict(old_log)
NewLogInit(old_log) == old_log

\* Steps 3 of process_portodb_hashes_and_dedupe; keys are current_map's keys
\* in insertion order.
Classification(keys, current_map, root, old_log) ==
    ClassifyLoop(keys, current_map, root,
                 [old_log |-> old_log, new_log |-> NewLogInit(old_log),
                  unchanged |-> <<>>])

\* ------------------------------------------------------------ initial state
NoPrior == [crashAt |-> "none", manifest |-> AbsentFile]

IdleRun == [pc |-> "idle", dir |-> 0, todo |-> <<>>, lines |-> <<>>,
            sha_map |-> EmptyMap, old_log |-> EmptyMap, new_log |-> EmptyMap,
            unchanged |-> <<>>, log0 |-> AbsentFile, manifest0 |-> AbsentFile,
            failedOn |-> None, crashAt |-> "none", prior |-> NoPrior,
            saves |-> 0, fd |-> "none", off |-> 0]

IdleExec == [pc |-> "idle", paths |-> <<>>, i |-> 0, confirm |-> <<>>,
             report |-> <<>>]

\* A ledger file left in the backup root by something other than
\* save_portodb_log: a JSON text cut short, or a JSON list.
ForeignLedgers ==
    { [kind |-> "dict", entries |-> <<<<SortedPaths[1], "h1">>>>, whole |-> FALSE],
      [kind |-> "list", entries |-> <<<<SortedPaths[1], "h1">>>>, whole |-> TRUE] }

\* What the one run before the modelled ones may have copied.
PriorContents ==
    { EmptyMap,
      [EmptyMap EXCEPT ![SortedPaths[1]] = "h1", ![SortedPaths[2]] = "h2"] }

\* The lines write_sha256_file writes for a directory holding content.
ManifestOf(order, content) ==
    LET present == SelectSeq(order, LAMBDA n : content[n] # None)
    IN  [i \in 1..Len(present) |-> <<content[present[i]], present[i]>>]

\* The disk before the modelled runs.  With content = EmptyMap it is the
\* first run ever: no run directory holds anything and there is no ledger.
\* Otherwise one run has just completed in minute 0: it copied content into
\* directory 0, wrote its manifest and saved its ledger; it had no prior
\* ledger, so it wrote no delete script.
Disk0(content, ledger) ==
    /\ clock = 0
    /\ listOrder \in Perms(RelPaths)
    /\ files = [d \in Dirs |-> IF d = 0 THEN content ELSE EmptyMap]
    /\ shaFile = [d \in Dirs |->
                    IF d = 0 /\ content # EmptyMap
                    THEN [kind |-> "text", entries |-> ManifestOf(listOrder, content),
                          whole |-> TRUE]
                    ELSE AbsentFile]
    /\ logFile = ledger
    /\ tmpFile = AbsentFile
    /\ planFile = [m \in Dirs |-> AbsentFile]
    /\ run = [p \in Procs |-> IdleRun]
    /\ nRuns = 0
    /\ locked = {}
    /\ exec = IdleExec
    /\ observed = content

Init ==
    \E content \in PriorContents :
        Disk0(content,
              IF content = EmptyMap THEN AbsentFile
              ELSE [kind |-> "dict", entries |-> DumpEntries(content), whole |-> TRUE])

\* The first run ever, with no ledger file or with one that save_portodb_log
\* did not write.
InitForeign == \E ledger \in ForeignLedgers \cup {AbsentFile} : Disk0(EmptyMap, ledger)

\* ------------------------------------------------------------ a run
Stopped == {"done", "crashed", "aborted"}
Running == {"pull", "walk", "hash", "sha_write", "load", "classify",
            "save_open", "save_write", "save_replace", "script"}

RunFrame == UNCHANGED <<clock, listOrder, locked, exec, observed>>

\* main up to backup_portodb_dbs: create_run_directory names the run directory
\* by the current minute and makes it with exist_ok=True.
StartRun(p) ==
    /\ run[p].pc \in Stopped \cup {"idle"}
    /\ nRuns < MaxRuns
    /\ nRuns' = nRuns + 1
    /\ run' = [run EXCEPT ![p] = [IdleRun EXCEPT !.pc = "pull", !.dir = clock,
                                                 !.log0 = logFile]]
    /\ UNCHANGED <<files, shaFile, logFile, tmpFile, planFile>>
    /\ RunFrame

\* What the phone directory may hold when it is pulled: the first file with
\* either content, the second file with one content or not there.
PhoneContents ==
    {src \in Maps : src[SortedPaths[1]] # None /\ src[SortedPaths[2]] \in {None, "h2"}}

\* adb pull: the files of the phone directory are copied over the run
\* directory's; what the phone holds is the environment's choice.
Overlay(old, src) == [r \in RelPaths |-> IF src[r] # None THEN src[r] ELSE old[r]]

\* returncode == 0: go on to process_portodb_hashes_and_dedupe.
PullOk(p) ==
    /\ run[p].pc = "pull"
    /\ \E src \in PhoneContents :
          files' = [files EXCEPT ![run[p].dir] = Overlay(@, src)]
    /\ run' = [run EXCEPT ![p].pc = "walk"]
    /\ UNCHANGED <<shaFile, logFile, tmpFile, planFile, nRuns>>
    /\ RunFrame

\* returncode != 0: warn and return without hashing; some files may have been
\* copied.
PullFail(p) ==
    /\ run[p].pc = "pull"
    /\ \E src \in PhoneContents :
          files' = [files EXCEPT ![run[p].dir] = Overlay(@, src)]
    /\ run' = [run EXCEPT ![p].pc = "done"]
    /\ UNCHANGED <<shaFile, logFile, tmpFile, planFile, nRuns>>
    /\ RunFrame

\* process_portodb_hashes_and_dedupe called on the directory of an earlier
\* invocation, without a new pull.
Rerun(p) ==
    /\ run[p].pc \in Stopped
    /\ nRuns < MaxRuns
    /\ nRuns' = nRuns + 1
    /\ run' = [run EXCEPT ![p] =
                 [IdleRun EXCEPT !.pc = "walk", !.dir = run[p].dir,
                                 !.log0 = logFile,
                                 !.prior = IF run[p].crashAt = "after manifest"
                                           THEN [crashAt |-> run[p].crashAt,
                                                 manifest |-> shaFile[run[p].dir]]
                                           ELSE NoPrior]]
    /\ UNCHANGED <<files, shaFile, logFile, tmpFile, planFile>>
    /\ RunFrame

\* The isdir check (the directory was made by makedirs, so it holds) and the
\* start of os.walk.
Walk(p) ==
    /\ run[p].pc = "walk"
    /\ \E listing \in Listings(run[p].dir) :
          run' = [run EXCEPT ![p].pc = "hash", ![p].todo = listing,
                             ![p].lines = <<>>, ![p].sha_map = EmptyMap,
                             ![p].manifest0 = shaFile[run[p].dir]]
    /\ UNCHANGED <<files, shaFile, logFile, tmpFile, planFile, nRuns>>
    /\ RunFrame

\* One iteration of the walk: SHA256.txt itself is skipped, any other file is
\* hashed and recorded.
HashFile(p) ==
    /\ run[p].pc = "hash"
    /\ run[p].todo # <<>>
    /\ LET name == Head(run[p].todo)
           sha  == files[run[p].dir][name]
       IN  IF name = ShaName
           THEN run' = [run EXCEPT ![p].todo = Tail(@)]
           ELSE /\ sha # None
                /\ run' = [run EXCEPT ![p].todo = Tail(@),
                                      ![p].sha_map = [@ EXCEPT ![name] = sha],
                                      ![p].lines = Append(@, <<sha, name>>)]
    /\ UNCHANGED <<files, shaFile, logFile, tmpFile, planFile, nRuns>>
    /\ RunFrame

\* compute_sha256 raises (the file cannot be opened or read): nothing catches
\* the exception in write_sha256_file, process_portodb_hashes_and_dedupe,
\* backup_portodb_dbs or main.
HashFail(p) ==
    /\ run[p].pc = "hash"
    /\ run[p].todo # <<>>
    /\ Head(run[p].todo) # ShaName
    /\ run' = [run EXCEPT ![p] = [IdleRun EXCEPT !.pc = "aborted",
                                                 !.dir = run[p].dir,
                                                 !.failedOn = Head(run[p].todo)]]
    /\ UNCHANGED <<files, shaFile, logFile, tmpFile, planFile, nRuns>>
    /\ RunFrame

\* open(sha_file_path, "a"): the old text is kept.
ShaOpenAppend(p) ==
    /\ run[p].pc = "hash"
    /\ run[p].todo = <<>>
    /\ shaFile' = [shaFile EXCEPT ![run[p].dir] =
                     [kind |-> "text", entries |-> @.entries, whole |-> FALSE]]
    /\ run' = [run EXCEPT ![p].pc = "sha_write"]
    /\ UNCHANGED <<files, logFile, tmpFile, planFile, nRuns>>
    /\ RunFrame

\* open(sha_file_path, "w"): SHA256.txt is created or truncated in place.
ShaOpen(p) ==
    /\ run[p].pc = "hash"
    /\ run[p].todo = <<>>
    /\ shaFile' = [shaFile EXCEPT ![run[p].dir] =
                     [kind |-> "text", entries |-> <<>>, whole |-> FALSE]]
    /\ run' = [run EXCEPT ![p].pc = "sha_write"]
    /\ UNCHANGED <<files, logFile, tmpFile, planFile, nRuns>>
    /\ RunFrame

\* f.write(...): the text reaches the file a piece at a time.
ShaWrite(p) ==
    /\ run[p].pc = "sha_write"
    /\ Len(shaFile[run[p].dir].entries) < Len(run[p].lines)
    /\ shaFile' = [shaFile EXCEPT ![run[p].dir].entries =
                     Append(@, run[p].lines[Len(@) + 1])]
    /\ UNCHANGED <<files, logFile, tmpFile, planFile, nRuns, run>>
    /\ RunFrame

\* The with block of write_sha256_file ends: the file is flushed and closed,
\* and sha_map is returned.
ShaClose(p) ==
    /\ run[p].pc = "sha_write"
    /\ Len(shaFile[run[p].dir].entries) >= Len(run[p].lines)
    /\ shaFile' = [shaFile EXCEPT ![run[p].dir].whole = TRUE]
    /\ run' = [run EXCEPT ![p].pc = "load"]
    /\ UNCHANGED <<files, logFile, tmpFile, planFile, nRuns>>
    /\ RunFrame

\* old_log = load_portodb_log(log_path)
LoadLog(p) ==
    /\ run[p].pc = "load"
    /\ run' = [run EXCEPT ![p].pc = "classify",
                          ![p].old_log = load_portodb_log(logFile)]
    /\ UNCHANGED <<files, shaFile, logFile, tmpFile, planFile, nRuns>>
    /\ RunFrame

\* The keys of current_map in insertion order.
Keys(lines) == [i \in 1..Len(lines) |-> lines[i][2]]

\* Step 3 of process_portodb_hashes_and_dedupe.
Classify(p) ==
    /\ run[p].pc = "classify"
    /\ LET c == Classification(Keys(run[p].lines), run[p].sha_map, run[p].dir,
                               run[p].old_log)
       IN  run' = [run EXCEPT ![p].pc = "save_open",
                              ![p].old_log = c.old_log,
                              ![p].new_log = c.new_log,
                              ![p].unchanged = c.unchanged]
    /\ UNCHANGED <<files, shaFile, logFile, tmpFile, planFile, nRuns>>
    /\ RunFrame

NewText == [kind |-> "dict", entries |-> <<>>, whole |-> FALSE]

\* What a read finds where nothing was written: a write past the end of a
\* file leaves a gap of NUL bytes.
Hole == <<None, None>>

\* The entries of a file after entry e is written at place k through a handle
\* whose position is there: over what is there, at the end, or past the end.
WriteAt(es, k, e) ==
    IF k <= Len(es) THEN [es EXCEPT ![k] = e]
    ELSE es \o [i \in 1..(k - 1 - Len(es)) |-> Hole] \o <<e>>

\* Whether the text left in a file by a writer that wrote n entries and the
\* closing brace is one JSON object: nothing follows and there is no gap.
Parses(es, n) == Len(es) = n /\ Hole \notin Range(es)

\* open(log_path, "w"): the ledger itself is truncated and written in place.
SaveOpenInPlace(p) ==
    /\ run[p].pc = "save_open"
    /\ logFile' = NewText
    /\ tmpFile' = NewText
    /\ run' = [run EXCEPT ![p].pc = "save_write", ![p].fd = "tmp", ![p].off = 0]
    /\ UNCHANGED <<files, shaFile, planFile, nRuns>>
    /\ RunFrame

\* save_portodb_log: open(tmp_path, "w") creates the temp file or truncates
\* the one that is there (a handle another writer has on it stays on it); the
\* new handle is at the start.
SaveOpen(p) ==
    /\ run[p].pc = "save_open"
    /\ tmpFile' = NewText
    /\ run' = [run EXCEPT ![p].pc = "save_write", ![p].fd = "tmp", ![p].off = 0]
    /\ UNCHANGED <<files, shaFile, logFile, planFile, nRuns>>
    /\ RunFrame

\* json.dump writes the entries a piece at a time, each at the handle's
\* position, into the file the handle is on: the temp file, or, once another
\* run has renamed that file, the ledger; a file that was renamed over is on
\* no path any more.
SaveWrite(p) ==
    /\ run[p].pc = "save_write"
    /\ run[p].off < Len(DumpEntries(run[p].new_log))
    /\ LET e == DumpEntries(run[p].new_log)[run[p].off + 1]
       IN  CASE run[p].fd = "tmp" ->
                  /\ tmpFile' = [tmpFile EXCEPT !.entries = WriteAt(@, run[p].off + 1, e),
                                                !.whole = FALSE]
                  /\ UNCHANGED logFile
             [] run[p].fd = "log" ->
                  /\ logFile' = [logFile EXCEPT !.entries = WriteAt(@, run[p].off + 1, e),
                                                !.whole = FALSE]
                  /\ UNCHANGED tmpFile
             [] OTHER -> UNCHANGED <<logFile, tmpFile>>
    /\ run' = [run EXCEPT ![p].off = @ + 1]
    /\ UNCHANGED <<files, shaFile, planFile, nRuns>>
    /\ RunFrame

\* The with block of save_portodb_log ends: the closing brace is written and
\* the handle is flushed and closed.
SaveClose(p) ==
    /\ run[p].pc = "save_write"
    /\ run[p].off >= Len(DumpEntries(run[p].new_log))
    /\ CASE run[p].fd = "tmp" ->
              /\ tmpFile' = [tmpFile EXCEPT !.whole = Parses(tmpFile.entries, run[p].off)]
              /\ UNCHANGED logFile
         [] run[p].fd = "log" ->
              /\ logFile' = [logFile EXCEPT !.whole = Parses(logFile.entries, run[p].off)]
              /\ UNCHANGED tmpFile
         [] OTHER -> UNCHANGED <<logFile, tmpFile>>
    /\ run' = [run EXCEPT ![p].pc = "save_replace", ![p].fd = "none", ![p].off = 0]
    /\ UNCHANGED <<files, shaFile, planFile, nRuns>>
    /\ RunFrame

\* Where a handle is after os.replace(tmp_path, log_path) by another run: a
\* handle on the temp file is on the ledger, a handle on the old ledger is on
\* a file without a name.
Renamed(fd) ==
    IF fd = "tmp" THEN "log" ELSE IF fd = "log" THEN "orphan" ELSE fd

\* os.replace(tmp_path, log_path): the temp file becomes the ledger in one
\* step; with no temp file it raises, which nothing catches.
SaveReplace(p) ==
    /\ run[p].pc = "save_replace"
    /\ IF tmpFile.kind = "absent"
       THEN /\ run' = [run EXCEPT ![p] = [IdleRun EXCEPT !.pc = "aborted",
                                                        !.dir = run[p].dir]]
            /\ UNCHANGED <<logFile, tmpFile>>
       ELSE /\ logFile' = tmpFile
            /\ tmpFile' = AbsentFile
            /\ run' = [q \in Procs |->
                         IF q = p
                         THEN [run[p] EXCEPT !.pc = "script", !.saves = @ + 1]
                         ELSE [run[q] EXCEPT !.fd = Renamed(@)]]
    /\ UNCHANGED <<files, shaFile, planFile, nRuns>>
    /\ RunFrame

\* A planner without the early return: a script is written for any list.
WritePlanAlways(files_to_delete) ==
    [planFile EXCEPT ![clock] =
        [kind |-> "script", entries |-> files_to_delete, whole |-> TRUE]]

\* generate_portodb_delete_script: nothing for an empty list; otherwise the
\* script named by the current minute is written into the cwd.
WritePlan(files_to_delete) ==
    IF files_to_delete = <<>>
    THEN planFile
    ELSE [planFile EXCEPT ![clock] =
            [kind |-> "script", entries |-> files_to_delete, whole |-> TRUE]]

\* The history after a run with this manifest has completed.
Observe(seen, lines) ==
    [rel \in RelPaths |->
        LET at == {i \in 1..Len(lines) : lines[i][2] = rel}
        IN  IF at = {} THEN seen[rel] ELSE lines[Max(at)][1]]

\* Step 5 of process_portodb_hashes_and_dedupe, then the rest of main: the run
\* has completed.
GenScript(p) ==
    /\ run[p].pc = "script"
    /\ planFile' = WritePlan(run[p].unchanged)
    /\ run' = [run EXCEPT ![p] = [IdleRun EXCEPT !.pc = "done", !.dir = run[p].dir]]
    /\ observed' = Observe(observed, run[p].lines)
    /\ UNCHANGED <<files, shaFile, logFile, tmpFile, nRuns>>
    /\ UNCHANGED <<clock, listOrder, locked, exec>>

\* Where a run stopped: before SHA256.txt was written, after the ledger was
\* replaced, or between the two.
Phase(pc) ==
    IF pc \in {"pull", "walk", "hash", "sha_write"} THEN "before manifest"
    ELSE IF pc = "script" THEN "after save"
    ELSE "after manifest"

\* The process is killed, or a write raises (disk full, permissions): the run
\* ends where it is and the files stay as they are.  Of its locals only what
\* later statements are about is remembered.
Crash(p) ==
    /\ run[p].pc \in Running
    /\ run' = [run EXCEPT ![p] =
                 [IdleRun EXCEPT !.pc = "crashed", !.dir = run[p].dir,
                                 !.crashAt = Phase(run[p].pc),
                                 !.log0 = IF Phase(run[p].pc) = "after manifest"
                                          THEN run[p].log0 ELSE AbsentFile]]
    /\ UNCHANGED <<files, shaFile, logFile, tmpFile, planFile, nRuns>>
    /\ RunFrame

\* A minute passes.  The clock is read by create_run_directory and by
\* generate_portodb_delete_script only, so time is let pass just before those.
Tick ==
    /\ clock < MaxClock
    /\ \A p \in Procs : run[p].pc \in Stopped \cup {"idle", "script"}
    /\ clock' = clock + 1
    /\ UNCHANGED <<listOrder, files, shaFile, logFile, tmpFile, planFile, run,
                   nRuns, locked, exec, observed>>

RunStep(p) ==
    \/ StartRun(p) \/ PullOk(p) \/ PullFail(p) \/ Rerun(p) \/ Walk(p)
    \/ HashFile(p) \/ HashFail(p) \/ ShaOpen(p) \/ ShaWrite(p) \/ ShaClose(p)
    \/ LoadLog(p) \/ Classify(p) \/ SaveOpen(p) \/ SaveWrite(p) \/ SaveClose(p)
    \/ SaveReplace(p) \/ GenScript(p) \/ Crash(p)

\* Runs one at a time (section 5: only one run proceeds at a time).
Next == Tick \/ \E p \in Serial : RunStep(p)

Spec == Init /\ [][Next]_vars

SpecForeign == InitForeign /\ [][Next]_vars

\* Serialized runs none of which is killed or fails: every run completes.
CompletedStep(p) ==
    \/ StartRun(p) \/ PullOk(p) \/ PullFail(p) \/ Rerun(p) \/ Walk(p)
    \/ HashFile(p) \/ ShaOpen(p) \/ ShaWrite(p) \/ ShaClose(p)
    \/ LoadLog(p) \/ Classify(p) \/ SaveOpen(p) \/ SaveWrite(p) \/ SaveClose(p)
    \/ SaveReplace(p) \/ GenScript(p)

NextCompleted == Tick \/ \E p \in Serial : CompletedStep(p)

SpecCompleted == Init /\ [][NextCompleted]_vars

\* Two runs that are not serialized, started in minutes 0 and 1 with the same
\* ledger file (absent, or left by earlier runs) in the backup root: each has
\* pulled into its own run directory and written its manifest, and neither
\* has loaded the ledger yet.
RacingRun(d, content, ledger) ==
    [IdleRun EXCEPT !.pc = "load", !.dir = d,
                    !.lines = ManifestOf(SortedPaths, content),
                    !.sha_map = content, !.log0 = ledger]

InitRace ==
    \E c1, c2 \in PhoneContents, old \in PriorContents :
        /\ clock = 1
        /\ listOrder = SortedPaths
        /\ files = [d \in Dirs |-> IF d = 0 THEN c1 ELSE IF d = 1 THEN c2 ELSE EmptyMap]
        /\ shaFile = [d \in Dirs |->
                        IF d \in {0, 1}
                        THEN [kind |-> "text", entries |-> ManifestOf(SortedPaths, files[d]),
                              whole |-> TRUE]
                        ELSE AbsentFile]
        /\ logFile = IF old = EmptyMap THEN AbsentFile
                     ELSE [kind |-> "dict", entries |-> DumpEntries(old), whole |-> TRUE]
        /\ tmpFile = AbsentFile
        /\ planFile = [m \in Dirs |-> AbsentFile]
        /\ run = [p \in Procs |-> IF p = "r1" THEN RacingRun(0, c1, logFile)
                                               ELSE RacingRun(1, c2, logFile)]
        /\ nRuns = 2
        /\ locked = {}
        /\ exec = IdleExec
        /\ observed = old

RaceStep(p) ==
    \/ LoadLog(p) \/ Classify(p) \/ SaveOpen(p) \/ SaveWrite(p) \/ SaveClose(p)
    \/ SaveReplace(p) \/ GenScript(p)

NextRace == \E p \in Procs : RaceStep(p)

SpecRace == InitRace /\ [][NextRace]_vars

\* ------------------------------------------------------------ the delete script
\* The text the generated script compares the input with: 'DELETE PORTODB'.
Token == <<"D", "E", "L", "E", "T", "E", " ", "P", "O", "R", "T", "O", "D", "B">>

\* Characters str.strip() removes that input() can return.
Whitespace == {" ", "\t"}

RECURSIVE LStrip(_)
LStrip(s) == IF s # <<>> /\ Head(s) \in Whitespace THEN LStrip(Tail(s)) ELSE s

RECURSIVE RStrip(_)
RStrip(s) ==
    IF s # <<>> /\ s[Len(s)] \in Whitespace THEN RStrip(SubSeq(s, 1, Len(s) - 1)) ELSE s

\* confirm.strip()
Strip(s) == RStrip(LStrip(s))

\* confirm.strip().startswith('DELETE PORTODB')
ConfirmedByPrefix(confirm) ==
    /\ Len(Strip(confirm)) >= Len(Token)
    /\ SubSeq(Strip(confirm), 1, Len(Token)) = Token

\* confirm.strip() == 'DELETE PORTODB'
Confirmed(confirm) == Strip(confirm) = Token

\* What may be typed at the prompt.
Pads == UNION {[1..n -> Whitespace] : n \in 0..MaxPad}
Typed == { Token, Token \o <<"!">>, SubSeq(Token, 1, 6), <<>> }
Inputs == {l \o t \o r : l \in Pads, t \in Typed, r \in Pads}

\* The lists process_portodb_hashes_and_dedupe can hand to
\* generate_portodb_delete_script: files of the run directory, each once.
PlanLists(d) ==
    {<<>>} \cup UNION {{[i \in 1..Len(s) |-> AbsPath(d, s[i])] : s \in Perms(S)} :
                          S \in SUBSET RelPaths \ {{}}}

Exists(path) == files[path[1]][path[2]] # None

ExecFrame ==
    UNCHANGED <<clock, listOrder, shaFile, logFile, tmpFile, run, nRuns, locked, observed>>

\* generate_portodb_delete_script(files_to_delete) for the files of run
\* directory 1.
PlanGenerate ==
    /\ exec.pc = "idle"
    /\ planFile[clock].kind = "absent"
    /\ \E files_to_delete \in PlanLists(1) :
          /\ \A i \in 1..Len(files_to_delete) : Exists(files_to_delete[i])
          /\ planFile' = WritePlan(files_to_delete)
    /\ UNCHANGED <<files, exec>>
    /\ ExecFrame

\* The generated script is started: FILES_TO_DELETE is read from its text and
\* the prompt is shown.
ExecStart ==
    /\ exec.pc = "idle"
    /\ \E m \in DOMAIN planFile :
          /\ planFile[m].kind = "script"
          /\ exec' = [exec EXCEPT !.pc = "prompt", !.paths = planFile[m].entries]
    /\ UNCHANGED <<files, planFile>>
    /\ ExecFrame

\* confirm = input(...); main() if it is confirmed, else 'Aborted'.
ExecConfirm ==
    /\ exec.pc = "prompt"
    /\ \E confirm \in Inputs :
          exec' = [exec EXCEPT !.confirm = confirm,
                               !.pc = IF Confirmed(confirm) THEN "main" ELSE "aborted",
                               !.i = 1]
    /\ UNCHANGED <<files, planFile>>
    /\ ExecFrame

\* A loop body that ends the loop when a removal fails.
ExecVisitStopOnFailure ==
    /\ exec.pc = "main"
    /\ exec.i <= Len(exec.paths)
    /\ LET path == exec.paths[exec.i]
       IN  IF Exists(path)
           THEN IF path \in locked
                THEN /\ exec' = [exec EXCEPT !.i = Len(exec.paths) + 1,
                                             !.report = Append(@, <<path, "failed">>)]
                     /\ UNCHANGED files
                ELSE /\ files' = [files EXCEPT ![path[1]][path[2]] = None]
                     /\ exec' = [exec EXCEPT !.i = @ + 1,
                                             !.report = Append(@, <<path, "removed">>)]
           ELSE /\ exec' = [exec EXCEPT !.i = @ + 1,
                                        !.report = Append(@, <<path, "skipped">>)]
                /\ UNCHANGED files
    /\ UNCHANGED planFile
    /\ ExecFrame

\* One iteration of "for path in FILES_TO_DELETE" in the script's main().
ExecVisit ==
    /\ exec.pc = "main"
    /\ exec.i <= Len(exec.paths)
    /\ LET path == exec.paths[exec.i]
       IN  IF Exists(path)
           THEN IF path \in locked
                THEN /\ exec' = [exec EXCEPT !.i = @ + 1,
                                             !.report = Append(@, <<path, "failed">>)]
                     /\ UNCHANGED files
                ELSE /\ files' = [files EXCEPT ![path[1]][path[2]] = None]
                     /\ exec' = [exec EXCEPT !.i = @ + 1,
                                             !.report = Append(@, <<path, "removed">>)]
           ELSE /\ exec' = [exec EXCEPT !.i = @ + 1,
                                        !.report = Append(@, <<path, "skipped">>)]
                /\ UNCHANGED files
    /\ UNCHANGED planFile
    /\ ExecFrame

\* main() returns.
ExecEnd ==
    /\ exec.pc = "main"
    /\ exec.i > Len(exec.paths)
    /\ exec' = [exec EXCEPT !.pc = "finished"]
    /\ UNCHANGED <<files, planFile>>
    /\ ExecFrame

\* Someone deletes a listed file by hand after the script was generated.
ManualDelete ==
    /\ exec.pc \in {"idle", "prompt", "main"}
    /\ \E m \in DOMAIN planFile : \E path \in Range(planFile[m].entries) :
          /\ Exists(path)
          /\ path \notin locked
          /\ files' = [files EXCEPT ![path[1]][path[2]] = None]
    /\ UNCHANGED <<planFile, exec>>
    /\ ExecFrame

\* A run directory holding two copied files, some of which os.remove cannot
\* remove, and no delete script yet.
InitPlan ==
    /\ clock = 1
    /\ listOrder = SortedPaths
    /\ files = [d \in Dirs |->
                  IF d = 1 THEN [EmptyMap EXCEPT ![SortedPaths[1]] = "h1",
                                                 ![SortedPaths[2]] = "h2"]
                  ELSE EmptyMap]
    /\ shaFile = [d \in Dirs |-> AbsentFile]
    /\ logFile = AbsentFile
    /\ tmpFile = AbsentFile
    /\ planFile = [m \in Dirs |-> AbsentFile]
    /\ run = [p \in Procs |-> IdleRun]
    /\ nRuns = 0
    /\ locked \in SUBSET {AbsPath(1, rel) : rel \in RelPaths}
    /\ exec = IdleExec
    /\ observed = EmptyMap

NextPlan ==
    \/ PlanGenerate \/ ExecStart \/ ExecConfirm \/ ExecVisit \/ ExecEnd
    \/ ManualDelete

SpecPlan == InitPlan /\ [][NextPlan]_vars

\* ------------------------------------------------------------ what the files say
\* The fingerprint the ledger file f records for rel, read off the file's text:
\* None unless the text is a whole JSON object with an entry for rel.
Recorded(f, rel) ==
    IF f.kind = "dict" /\ f.whole /\ \E h \in Shas : <<rel, h>> \in Range(f.entries)
    THEN CHOOSE h \in Shas : <<rel, h>> \in Range(f.entries)
    ELSE None

\* The fingerprint the manifest file f lists for rel, or None.
Listed(f, rel) ==
    IF f.kind = "text" /\ \E h \in Shas : <<h, rel>> \in Range(f.entries)
    THEN CHOOSE h \in Shas : <<h, rel>> \in Range(f.entries)
    ELSE None

Classified == {"save_open", "save_write", "save_replace", "script"}

\* ------------------------------------------------------------ C1
\* C1: once a run has classified, its reclaim candidates are exactly the paths
\* run_dir/rel for the rel that the manifest lists with the fingerprint the
\* ledger file recorded for rel when the run began; each is named once; with
\* no ledger file there is none.
C1_CandidatesExact ==
    \A p \in Procs :
        run[p].pc \in Classified =>
            LET d == run[p].dir
                same == {rel \in RelPaths :
                            /\ Listed(shaFile[d], rel) # None
                            /\ Listed(shaFile[d], rel) = files[d][rel]
                            /\ Recorded(run[p].log0, rel) = files[d][rel]}
            IN  /\ Range(run[p].unchanged) = {AbsPath(d, rel) : rel \in same}
                /\ Len(run[p].unchanged) = Cardinality(same)
                /\ run[p].log0.kind = "absent" => run[p].unchanged = <<>>

\* A run that found one file unchanged and another changed.
C1_Witness ==
    \E p \in Procs :
        /\ run[p].pc = "script"
        /\ Len(run[p].unchanged) = 1
        /\ Len(run[p].lines) = 2
        /\ \E rel \in RelPaths :
              /\ Recorded(run[p].log0, rel) # None
              /\ run[p].sha_map[rel] # None
              /\ Recorded(run[p].log0, rel) # run[p].sha_map[rel]

\* ------------------------------------------------------------ C2
\* C2: every reclaim candidate of a run is a duplicate: the same relative path
\* holds the same content in a different, earlier run directory.
C2_CandidateHasEarlierCopy ==
    \A p \in Procs :
        run[p].pc \in Classified =>
            \A i \in 1..Len(run[p].unchanged) :
                LET d == run[p].unchanged[i][1]
                    rel == run[p].unchanged[i][2]
                IN  \E e \in Dirs : e < d /\ files[e][rel] = files[d][rel]

\* ------------------------------------------------------------ C3
\* C3: the ledger file a run has just saved records, for every relative path,
\* the manifest's fingerprint if the manifest lists the path and otherwise
\* what the ledger file recorded when the run began (nothing, if nothing);
\* and classifying leaves the loaded old ledger as it was loaded.
C3_LedgerCarriedForward ==
    \A p \in Procs :
        /\ run[p].pc \in Classified =>
              \A rel \in RelPaths : run[p].old_log[rel] = Recorded(run[p].log0, rel)
        /\ run[p].pc = "script" =>
              /\ logFile.kind = "dict" /\ logFile.whole
              /\ Len(logFile.entries) =
                    Cardinality({rel \in RelPaths : Recorded(logFile, rel) # None})
              /\ \A rel \in RelPaths :
                    Recorded(logFile, rel) =
                        IF Listed(shaFile[run[p].dir], rel) # None
                        THEN Listed(shaFile[run[p].dir], rel)
                        ELSE Recorded(run[p].log0, rel)

\* A run that saved a ledger with one entry replaced and one carried forward
\* for a path it did not see.
C3_Witness ==
    \E p \in Procs :
        /\ run[p].pc = "script"
        /\ \E rel \in RelPaths :
              /\ run[p].sha_map[rel] = None
              /\ Recorded(run[p].log0, rel) # None
              /\ Recorded(logFile, rel) = Recorded(run[p].log0, rel)
        /\ \E rel \in RelPaths :
              /\ run[p].sha_map[rel] # None
              /\ Recorded(run[p].log0, rel) # None
              /\ Recorded(run[p].log0, rel) # run[p].sha_map[rel]
              /\ Recorded(logFile, rel) = run[p].sha_map[rel]

\* ------------------------------------------------------------ C4
Saving == {"save_open", "save_write", "save_replace"}

\* C4: a step taken while save_portodb_log is under way, a crash included,
\* leaves the ledger file as it was, except the rename, which puts the whole
\* new mapping there; and the ledger file is never a partial text.
C4_SaveIsAtomic ==
    [][\A p \in Procs :
          run[p].pc \in Saving =>
              /\ \/ logFile' = logFile
                 \/ /\ run[p].pc = "save_replace"
                    /\ run'[p].pc = "script"
                    /\ logFile'.kind = "dict" /\ logFile'.whole
                    /\ \A rel \in RelPaths :
                          Recorded(logFile', rel) = run[p].new_log[rel]
              /\ run'[p].pc # "script" =>
                    load_portodb_log(logFile') = load_portodb_log(logFile)
              /\ logFile'.kind # "absent" => logFile'.whole]_vars

\* A save that crashed midway through the temp file, which would have changed
\* the ledger.
C4_Witness ==
    \E p \in Procs :
        /\ run[p].pc = "crashed"
        /\ run[p].crashAt = "after manifest"
        /\ tmpFile.kind = "dict" /\ ~tmpFile.whole /\ Len(tmpFile.entries) = 1
        /\ logFile.kind = "dict" /\ logFile.whole
        /\ tmpFile.entries[1] \notin Range(logFile.entries)

\* ------------------------------------------------------------ C5
\* C5: while write_sha256_file writes, SHA256.txt holds either what it held
\* before (or is absent as before) or the complete new manifest.
C5_ManifestAtomic ==
    \A p \in Procs :
        run[p].pc = "sha_write" =>
            LET f == shaFile[run[p].dir]
            IN  \/ f.kind = run[p].manifest0.kind /\ f.entries = run[p].manifest0.entries
                \/ f.kind = "text" /\ f.entries = run[p].lines

\* ------------------------------------------------------------ C6
\* C6: a run in which hashing a file failed goes on: it is not ended by the
\* failure.
C6_HashErrorIsolated ==
    \A p \in Procs : run[p].failedOn # None => run[p].pc \in Running \cup {"done"}

\* ------------------------------------------------------------ C7
\* C7: a run that finds no ledger file, an unparseable one or one that is not
\* a mapping loads the empty mapping and goes on: it is not ended by the load,
\* it classifies every file as changed and it saves the current fingerprints.
C7_BadLedgerIsEmpty ==
    \A p \in Procs :
        /\ run[p].pc = "aborted" => run[p].failedOn # None
        /\ (run[p].log0.kind # "dict" \/ ~run[p].log0.whole) =>
              /\ run[p].pc \in Classified \cup {"classify"} =>
                    run[p].old_log = EmptyMap
              /\ run[p].pc \in Classified =>
                    /\ run[p].unchanged = <<>>
                    /\ run[p].new_log = run[p].sha_map
              /\ run[p].pc = "script" =>
                    \A rel \in RelPaths : Recorded(logFile, rel) = files[run[p].dir][rel]

\* A run that met an unparseable ledger whose text names a file with the very
\* fingerprint the file has now, and saved a new ledger.
C7_Witness ==
    \E p \in Procs :
        /\ run[p].pc = "script"
        /\ run[p].log0.kind = "dict" /\ ~run[p].log0.whole
        /\ \E e \in Range(run[p].log0.entries) : run[p].sha_map[e[1]] = e[2]
        /\ logFile.whole

\* ------------------------------------------------------------ C8
\* C8: a run that crashed after SHA256.txt was written and before the ledger
\* was replaced left the ledger file as it found it; and a re-run of the
\* dedupe step on its directory ends with the manifest that run wrote, and
\* with the candidates and the saved ledger that follow from that manifest
\* and that ledger.
C8_RerunAfterCrash ==
    \A p \in Procs :
        /\ (run[p].pc = "crashed" /\ run[p].crashAt = "after manifest") =>
              logFile = run[p].log0
        /\ (run[p].prior.crashAt = "after manifest" /\ run[p].pc = "script") =>
              LET d == run[p].dir
                  m == run[p].prior.manifest
                  same == {rel \in RelPaths :
                              Listed(m, rel) # None
                              /\ Listed(m, rel) = Recorded(run[p].log0, rel)}
              IN  /\ shaFile[d] = m
                  /\ Range(run[p].unchanged) = {AbsPath(d, rel) : rel \in same}
                  /\ \A rel \in RelPaths :
                        Recorded(logFile, rel) =
                            IF Listed(m, rel) # None THEN Listed(m, rel)
                            ELSE Recorded(run[p].log0, rel)

\* A re-run after such a crash that found a file unchanged and one changed.
C8_Witness ==
    \E p \in Procs :
        /\ run[p].prior.crashAt = "after manifest"
        /\ run[p].pc = "script"
        /\ run[p].unchanged # <<>>
        /\ \E rel \in RelPaths :
              /\ run[p].sha_map[rel] # None
              /\ Recorded(run[p].log0, rel) # run[p].sha_map[rel]

\* ------------------------------------------------------------ C9
\* C9 as written: the script removes a file only if the input is exactly the
\* confirmation text; after any other input it ends having removed nothing,
\* as an abort.
C9_ExactInputOnly ==
    /\ (\E i \in 1..Len(exec.report) : exec.report[i][2] = "removed") =>
          exec.confirm = Token
    /\ (exec.pc \in {"finished", "aborted"} /\ exec.confirm # Token) =>
          exec.pc = "aborted" /\ exec.report = <<>>

\* C9 as amended: the script gets into main(), and so removes anything, only
\* if the input with leading and trailing whitespace stripped is exactly the
\* confirmation text; after any other input it has visited no path and has
\* aborted.
C9_StrippedInputOnly ==
    /\ exec.pc \in {"main", "finished"} => Strip(exec.confirm) = Token
    /\ exec.report # <<>> => Strip(exec.confirm) = Token
    /\ (exec.pc \in {"main", "finished", "aborted"} /\ Strip(exec.confirm) # Token) =>
          exec.pc = "aborted" /\ exec.report = <<>>

\* The script aborted on the confirmation text followed by one more
\* character, with a listed file still there.
C9_Witness ==
    /\ exec.pc = "aborted"
    /\ exec.confirm = Token \o <<"!">>
    /\ \E i \in 1..Len(exec.paths) : Exists(exec.paths[i])

\* ------------------------------------------------------------ C10
\* C10: when the confirmed script has finished, it has visited every listed
\* path in order and reported each: a path it removed, a path that was not
\* there as skipped, a path whose removal failed as failed; and no listed
\* path that os.remove can remove is still there.
C10_BatchNotAborted ==
    exec.pc = "finished" =>
        /\ Len(exec.report) = Len(exec.paths)
        /\ \A i \in 1..Len(exec.paths) :
              /\ exec.report[i][1] = exec.paths[i]
              /\ exec.report[i][2] = "failed" =>
                    exec.paths[i] \in locked /\ Exists(exec.paths[i])
              /\ exec.report[i][2] \in {"removed", "skipped"} =>
                    ~Exists(exec.paths[i])
              /\ exec.paths[i] \notin locked => ~Exists(exec.paths[i])

\* A finished script whose first removal failed and whose second succeeded.
C10_Witness ==
    /\ exec.pc = "finished"
    /\ Len(exec.report) = 2
    /\ exec.report[1][2] = "failed"
    /\ exec.report[2][2] = "removed"

\* ------------------------------------------------------------ C11
\* C11: the step in which a run hands its candidates to
\* generate_portodb_delete_script changes no file at all when the candidate
\* list is empty (no script appears); when the list is not empty, the script
\* named by the current minute exists afterwards, is complete and names
\* exactly the candidate paths, and nothing else on the disk changes.
C11_PlanIffCandidates ==
    [][\A p \in Procs :
          (run[p].pc = "script" /\ run'[p].pc = "done") =>
              /\ UNCHANGED <<files, shaFile, logFile, tmpFile>>
              /\ \A m \in Dirs : m # clock => planFile'[m] = planFile[m]
              /\ IF run[p].unchanged = <<>>
                 THEN planFile' = planFile
                 ELSE /\ planFile'[clock].kind = "script"
                      /\ planFile'[clock].whole
                      /\ planFile'[clock].entries = run[p].unchanged]_vars

\* Two runs have completed: the one that found both files unchanged left a
\* script naming both, the later one, in the next minute, found its one file
\* changed, saved the ledger and left no script.
C11_Witness ==
    /\ nRuns = 2
    /\ run["r1"].pc = "done"
    /\ run["r1"].dir = 1
    /\ planFile[0].kind = "script" /\ Len(planFile[0].entries) = 2
    /\ planFile[1].kind = "absent"
    /\ shaFile[1].kind = "text" /\ shaFile[1].whole /\ Len(shaFile[1].entries) = 1
    /\ \A rel \in RelPaths :
          Listed(shaFile[1], rel) # None => Recorded(logFile, rel) = Listed(shaFile[1], rel)

\* ------------------------------------------------------------ C12
\* The relative paths of manifest lines are in strictly ascending order.
Ascending(entries) ==
    \A i, j \in 1..Len(entries) :
        i < j => \E a, b \in 1..Len(SortedPaths) :
                    a < b /\ SortedPaths[a] = entries[i][2] /\ SortedPaths[b] = entries[j][2]

\* C12: the manifest a run has written lists its lines in ascending
\* relative-path order, whatever the order in which os.walk gave the files.
C12_ManifestSorted ==
    \A p \in Procs :
        run[p].pc \in {"load", "classify"} \cup Classified =>
            /\ shaFile[run[p].dir].entries = run[p].lines
            /\ Ascending(shaFile[run[p].dir].entries)

\* ------------------------------------------------------------ C13
\* Between serialized runs all of which completed, the ledger file records for
\* every relative path the fingerprint of the most recent completed run whose
\* manifest listed the path (nothing for a path no manifest listed), with one
\* entry per recorded path.
LedgerIsLatest ==
    (\A p \in Procs : run[p].pc \in {"idle", "done"}) =>
        /\ \A rel \in RelPaths : Recorded(logFile, rel) = observed[rel]
        /\ Len(logFile.entries) =
              Cardinality({rel \in RelPaths : Recorded(logFile, rel) # None})

\* A step that writes the ledger file is the rename of a run that has not
\* written it before and whose manifest is on the disk, complete.
WriteFollowsManifest ==
    /\ logFile' # logFile => \E p \in Procs : run'[p].saves = run[p].saves + 1
    /\ \A p \in Procs :
          run'[p].saves > run[p].saves =>
              /\ run[p].saves = 0 /\ run'[p].saves = 1
              /\ run[p].pc = "save_replace"
              /\ shaFile[run[p].dir].kind = "text" /\ shaFile[run[p].dir].whole
              /\ shaFile[run[p].dir].entries = run[p].lines

\* C13 as written: the ledger is the latest fingerprint of every path listed
\* by a completed run's manifest, and every run that completes has written
\* the ledger file exactly once, after its manifest.
C13_ExactlyOncePerRun ==
    /\ []LedgerIsLatest
    /\ [][/\ WriteFollowsManifest
          /\ \A p \in Procs :
                (run[p].pc # "done" /\ run'[p].pc = "done") => run[p].saves = 1]_vars

\* C13 as amended: the same about the ledger's content; the ledger file is
\* written at most once per run and only after the manifest: exactly once
\* by a run that completes after a successful pull, not at all by a run whose
\* pull failed, which leaves the ledger file as it found it.
C13_OncePerDedupeStep ==
    /\ []LedgerIsLatest
    /\ [][/\ WriteFollowsManifest
          /\ \A p \in Procs :
                (run[p].pc # "done" /\ run'[p].pc = "done") =>
                    IF run[p].pc = "script"
                    THEN run[p].saves = 1
                    ELSE /\ run[p].pc = "pull"
                         /\ run[p].saves = 0
                         /\ logFile' = run[p].log0]_vars

\* After the run before and two more completed runs, the second of them in
\* the next minute with a manifest of one file whose content had changed: the
\* ledger has that file's new fingerprint and still the other file's.
C13_Witness ==
    /\ nRuns = 2
    /\ run["r1"].pc = "done"
    /\ shaFile[1].kind = "text" /\ shaFile[1].whole /\ Len(shaFile[1].entries) = 1
    /\ \E rel \in RelPaths :
          /\ Listed(shaFile[1], rel) # None
          /\ Listed(shaFile[0], rel) # None
          /\ Listed(shaFile[1], rel) # Listed(shaFile[0], rel)
          /\ Recorded(logFile, rel) = Listed(shaFile[1], rel)
    /\ \E rel \in RelPaths :
          /\ Listed(shaFile[1], rel) = None
          /\ Listed(shaFile[0], rel) # None
          /\ Recorded(logFile, rel) = Listed(shaFile[0], rel)

\* ------------------------------------------------------------ C14
\* Both runs loaded the ledger file that was there before either saved.
BothLoadedFirst ==
    \A p \in Procs :
        /\ run[p].pc \in Classified
        /\ run[p].old_log = load_portodb_log(run[p].log0)

\* C14: when both of two unserialized runs loaded the ledger before either
\* saved, the ledger file always holds one whole mapping, the one loaded or
\* the one built by a run, never a partial text or a mix; and when the second
\* of them renames, the ledger file is from then exactly the mapping that run
\* built.
C14_LastWriterWins ==
    [][BothLoadedFirst =>
          /\ logFile'.kind # "absent" =>
                /\ logFile'.whole
                /\ \E p \in Procs :
                      \/ logFile'.entries = run[p].log0.entries
                      \/ logFile'.entries = DumpEntries(run[p].new_log)
          /\ \A p, q \in Procs :
                (/\ p # q
                 /\ run[q].pc = "script"
                 /\ run[p].pc = "save_replace"
                 /\ run'[p].pc = "script") =>
                    logFile'.entries = DumpEntries(run[p].new_log)]_vars

====
